---- MODULE Spec2Model ----
(***************************************************************************)
(* A model of munkres<eT>::solve (munkres-arma, munkres.hpp): the          *)
(* preprocessing of the cost matrix, the five-step Munkres engine observed *)
(* step by step, and the extraction of the starred cells.                  *)
(*                                                                         *)
(* Matrices are functions [0..n_rows-1 -> [0..n_cols-1 -> value]], with    *)
(* the code's 0-based subscripts.  Values of type eT (double) are records: *)
(* a finite number (integers only, so all arithmetic is exact), +infinity, *)
(* -infinity or NaN, with the IEEE-754 comparison and arithmetic rules.    *)
(***************************************************************************)
EXTENDS Integers, Sequences, FiniteSets, TLC

\* Largest finite cost of an enumerated input matrix.
MaxVal == 1

\* Row and column counts of the enumerated input matrices.
Dims == 1..3

\* Shapes on which every entry ranges over all costs, non-finite included.
SmallDims == 1..2

\* Row and column counts, and largest cost, of the matrices given to an
\* object that is used for several calls.
ReuseRows == 1..2
ReuseCols == 1..3
ReuseCosts == 0..1

\* Number of solve calls made on one object.
MaxCalls == 2

\* Values an uninitialized saverow_ / savecol_ may hold in a fresh object.
Indeterminate == {0, 3}

(***************************************************************************)
(* eT = double                                                             *)
(***************************************************************************)
Fin(x) == [k |-> "fin", v |-> x]
PosInf == [k |-> "inf", v |-> 0]
NegInf == [k |-> "ninf", v |-> 0]
NaN == [k |-> "nan", v |-> 0]
Zero == Fin(0)

IsNaN(a) == a.k = "nan"
IsFinite(a) == a.k = "fin"
IsInf(a) == a.k \in {"inf", "ninf"}

\* a < b
FLt(a, b) ==
    IF IsNaN(a) \/ IsNaN(b) THEN FALSE
    ELSE IF IsFinite(a) /\ IsFinite(b) THEN a.v < b.v
    ELSE IF a.k = "ninf" THEN b.k # "ninf"
    ELSE IF a.k = "inf" THEN FALSE
    ELSE b.k = "inf"

\* a == b
FEq(a, b) == ~IsNaN(a) /\ ~IsNaN(b) /\ a = b

\* a - b
FSub(a, b) ==
    IF IsNaN(a) \/ IsNaN(b) THEN NaN
    ELSE IF IsFinite(a) /\ IsFinite(b) THEN Fin(a.v - b.v)
    ELSE IF IsFinite(b) THEN a
    ELSE IF a = b THEN NaN
    ELSE IF b.k = "inf" THEN NegInf
    ELSE PosInf

\* a + b
FAdd(a, b) ==
    IF IsNaN(a) \/ IsNaN(b) THEN NaN
    ELSE IF IsFinite(a) /\ IsFinite(b) THEN Fin(a.v + b.v)
    ELSE IF IsFinite(b) THEN a
    ELSE IF IsFinite(a) THEN b
    ELSE IF a = b THEN a
    ELSE NaN

(***************************************************************************)
(* arma::Mat                                                               *)
(***************************************************************************)
NRows(M) == Cardinality(DOMAIN M)
NCols(M) == IF DOMAIN M = {} THEN 0 ELSE Cardinality(DOMAIN M[0])
IsSquare(M) == NRows(M) = NCols(M)
Rng(n) == 0..(n - 1)
Elems(M) == {M[r][c] : r \in DOMAIN M, c \in Rng(NCols(M))}

\* The largest of a set of values as a scan with x > acc finds it: NaN never
\* compares greater, and the scan starts from the most negative value.
MaxOf(S) ==
    LET T == {x \in S : ~IsNaN(x)}
    IN  IF T = {} THEN NegInf ELSE CHOOSE x \in T : \A y \in T : ~FLt(x, y)

\* The smallest of a set of values as a scan with x < acc finds it, starting
\* from the most positive value.
MinOf(S) ==
    LET T == {x \in S : ~IsNaN(x)}
    IN  IF T = {} THEN PosInf ELSE CHOOSE x \in T : \A y \in T : ~FLt(y, x)

\* matrix_.max()
MatMax(M) == MaxOf(Elems(M))

\* min(matrix_, 1): the minimum of every row; the scan starts from the row's
\* first element and replaces it by any later element that compares less.
RowMin(M) ==
    [r \in DOMAIN M |->
        IF IsNaN(M[r][0]) THEN NaN ELSE MinOf({M[r][c] : c \in DOMAIN M[r]})]

\* min(matrix_, 0): the minimum of every column.
ColMin(M) ==
    [c \in Rng(NCols(M)) |-> MinOf({M[r][c] : r \in DOMAIN M})]

\* matrix_.each_col() -= v
EachColSub(M, v) == [r \in DOMAIN M |-> [c \in DOMAIN M[r] |-> FSub(M[r][c], v[r])]]

\* matrix_.each_row() -= w
EachRowSub(M, w) == [r \in DOMAIN M |-> [c \in DOMAIN M[r] |-> FSub(M[r][c], w[c])]]

\* matrix_.resize(size, size) followed by the fill of the added columns or rows.
ResizeFill(M, size, value) ==
    [r \in Rng(size) |-> [c \in Rng(size) |->
        IF r < NRows(M) /\ c < NCols(M) THEN M[r][c] ELSE value]]

\* X.resize(rows, columns) to a smaller size: the top-left block is kept.
Shrink(M, rows, columns) == [r \in Rng(rows) |-> [c \in Rng(columns) |-> M[r][c]]]

HasInf(M) == \E x \in Elems(M) : IsInf(x)
FiniteElems(M) == {x \in Elems(M) : IsFinite(x)}

\* matrix_.elem(find_nonfinite(matrix_)).fill(value)
FillNonFinite(M, value) ==
    [r \in DOMAIN M |-> [c \in DOMAIN M[r] |->
        IF IsFinite(M[r][c]) THEN M[r][c] ELSE value]]

(***************************************************************************)
(* class munkres: the object's state                                       *)
(***************************************************************************)
NORMAL == 0
STAR == 1
PRIME == 2

VARIABLES
    pc,         \* where the call is: idle, step1..step5 (the value of step),
                \* done (step = 0, the loop left), returned, failed
    m,          \* the caller's cost matrix
    rows,       \* solve's local rows
    columns,    \* solve's local columns
    matrix_,
    mask_,
    row_mask_,
    col_mask_,
    saverow_,
    savecol_,
    result,     \* the umat solve returned: a sequence of <<row, column>>
    calls       \* the number of solve calls made on the object

vars == <<pc, m, rows, columns, matrix_, mask_, row_mask_, col_mask_,
          saverow_, savecol_, result, calls>>

\* The object as a record, for the operators that model the member functions.
Object ==
    [pc |-> pc, matrix_ |-> matrix_, mask_ |-> mask_, row_mask_ |-> row_mask_,
     col_mask_ |-> col_mask_, saverow_ |-> saverow_, savecol_ |-> savecol_]

\* The object becomes t.
Becomes(t) ==
    /\ pc' = t.pc
    /\ matrix_' = t.matrix_
    /\ mask_' = t.mask_
    /\ row_mask_' = t.row_mask_
    /\ col_mask_' = t.col_mask_
    /\ saverow_' = t.saverow_
    /\ savecol_' = t.savecol_

\* Op applied to the value of v, which is computed once however often Op
\* uses it.
Then(v, Op(_)) == CHOOSE y \in {Op(x) : x \in {v}} : TRUE

Min2(a, b) == IF a < b THEN a ELSE b
Max2(a, b) == IF a > b THEN a ELSE b
SetMin(S) == CHOOSE x \in S : \A y \in S : x <= y

(***************************************************************************)
(* solve, lines 82-119: the copy, the padding to a square, the reset of    *)
(* the mask and of the covers, the replacement of the non-finite entries   *)
(* and the two reductions.                                                 *)
(***************************************************************************)

\* What .max() of an object with no elements does: the library's check throws
\* std::logic_error, and a build without the check returns NaN.
EmptyMaxOutcomes == {"throw", "nan"}

\* Lines 86-96.
Squared(x) ==
    LET size == Max2(NRows(x), NCols(x))
    IN  IF IsSquare(x) THEN x ELSE ResizeFill(x, size, MatMax(x))

\* Lines 111-112, given the value of the .max() of the finite elements.
InfReplaced(M, value) == IF HasInf(M) THEN FillNonFinite(M, value) ELSE M

\* Mutant of Reduced: the column minima are not subtracted.
ReducedRowsOnly(M) == EachColSub(M, RowMin(M))

\* Mutant of Reduced: the column maxima are subtracted instead of the
\* column minima.
ReducedByMax(M) ==
    LET byRow == EachColSub(M, RowMin(M))
    IN  EachRowSub(byRow, [c \in Rng(NCols(byRow)) |->
                               MaxOf({byRow[r][c] : r \in DOMAIN byRow})])

\* Lines 115-116.
Reduced(M) ==
    LET byRow == EachColSub(M, RowMin(M))
    IN  EachRowSub(byRow, ColMin(byRow))

\* Whether line 112 takes the .max() of no element.
MaxOfNothing(x) == HasInf(Squared(x)) /\ FiniteElems(Squared(x)) = {}

\* Mutant of Prepared: mask_ is resized without being filled with NORMAL,
\* so a mask of the same size keeps its marks.
PreparedKeepMask(s, x, outcome) ==
    LET size == Max2(NRows(x), NCols(x))
        sq == Squared(x)
        value == IF FiniteElems(sq) = {} THEN NaN ELSE MaxOf(FiniteElems(sq))
    IN  [pc |-> "step1",
         matrix_ |-> Reduced(InfReplaced(sq, value)),
         mask_ |-> IF NRows(s.mask_) = size /\ NCols(s.mask_) = size THEN s.mask_
                   ELSE [r \in Rng(size) |-> [c \in Rng(size) |-> NORMAL]],
         row_mask_ |-> [r \in Rng(size) |-> FALSE],
         col_mask_ |-> [c \in Rng(size) |-> FALSE],
         saverow_ |-> s.saverow_,
         savecol_ |-> s.savecol_]

\* The object when the step loop is entered (outcome "nan" when the .max()
\* of line 112 returns) or when line 112 throws (outcome "throw").
Prepared(s, x, outcome) ==
    LET size == Max2(NRows(x), NCols(x))
        sq == Squared(x)
        value == IF FiniteElems(sq) = {} THEN NaN ELSE MaxOf(FiniteElems(sq))
        thrown == MaxOfNothing(x) /\ outcome = "throw"
    IN  [pc |-> IF thrown THEN "failed" ELSE "step1",
         matrix_ |-> IF thrown THEN sq ELSE Reduced(InfReplaced(sq, value)),
         mask_ |-> [r \in Rng(size) |-> [c \in Rng(size) |-> NORMAL]],
         row_mask_ |-> [r \in Rng(size) |-> FALSE],
         col_mask_ |-> [c \in Rng(size) |-> FALSE],
         saverow_ |-> s.saverow_,
         savecol_ |-> s.savecol_]

(***************************************************************************)
(* step1                                                                   *)
(***************************************************************************)
RECURSIVE Step1ScanRowOnly(_, _, _)
\* Mutant of Step1Scan: a zero is starred when its row holds no star, the
\* column is not looked at.
Step1ScanRowOnly(M, mask, k) ==
    LET n == NCols(M)
        row == k \div n
        col == k % n
        starred == \E ncol \in DOMAIN mask[row] : mask[row][ncol] = STAR
    IN  IF k >= NRows(M) * n THEN mask
        ELSE Then(IF FEq(Zero, M[row][col]) /\ ~starred
                  THEN [mask EXCEPT ![row][col] = STAR] ELSE mask,
                  LAMBDA marked : Step1ScanRowOnly(M, marked, k + 1))

\* Mutant of Step1Scan: no zero is starred.
Step1ScanNone(M, mask, k) == mask

RECURSIVE Step1Scan(_, _, _)
\* The scan of lines 160-184 from cell k on, in row-major order.
Step1Scan(M, mask, k) ==
    LET n == NCols(M)
        row == k \div n
        col == k % n
        starred == \/ \E nrow \in DOMAIN mask : mask[nrow][col] = STAR
                   \/ \E ncol \in DOMAIN mask[row] : mask[row][ncol] = STAR
    IN  IF k >= NRows(M) * n THEN mask
        ELSE Then(IF FEq(Zero, M[row][col]) /\ ~starred
                  THEN [mask EXCEPT ![row][col] = STAR] ELSE mask,
                  LAMBDA marked : Step1Scan(M, marked, k + 1))

step1(s) == [s EXCEPT !.mask_ = Step1Scan(s.matrix_, s.mask_, 0), !.pc = "step2"]

(***************************************************************************)
(* step2                                                                   *)
(***************************************************************************)
StarCells(mask) ==
    {rc \in (DOMAIN mask) \X Rng(NCols(mask)) : mask[rc[1]][rc[2]] = STAR}

\* Mutant of step2: the cover count is compared with > instead of >=.
step2Strict(s) ==
    LET covercount == Cardinality(StarCells(s.mask_))
        covered == [col \in DOMAIN s.col_mask_ |->
                       \/ s.col_mask_[col]
                       \/ \E row \in DOMAIN s.mask_ : s.mask_[row][col] = STAR]
    IN  [s EXCEPT !.col_mask_ = covered,
                  !.pc = IF covercount > Min2(NRows(s.matrix_), NCols(s.matrix_))
                         THEN "done" ELSE "step3"]

step2(s) ==
    LET covercount == Cardinality(StarCells(s.mask_))
        covered == [col \in DOMAIN s.col_mask_ |->
                       \/ s.col_mask_[col]
                       \/ \E row \in DOMAIN s.mask_ : s.mask_[row][col] = STAR]
    IN  [s EXCEPT !.col_mask_ = covered,
                  !.pc = IF covercount >= Min2(NRows(s.matrix_), NCols(s.matrix_))
                         THEN "done" ELSE "step3"]

(***************************************************************************)
(* find_uncovered and step3                                                *)
(***************************************************************************)
\* find_uncovered(item, row, col): whether an uncovered cell holds item, and
\* the values the scan leaves in row and col (row0: the value row had).
find_uncovered(s, item, row0) ==
    LET M == s.matrix_
        hits == {cr \in Rng(NCols(M)) \X Rng(NRows(M)) :
                    /\ ~s.col_mask_[cr[1]]
                    /\ ~s.row_mask_[cr[2]]
                    /\ FEq(M[cr[2]][cr[1]], item)}
        first == CHOOSE cr \in hits : \A o \in hits :
                    cr[1] < o[1] \/ (cr[1] = o[1] /\ cr[2] <= o[2])
    IN  IF hits # {}
        THEN [found |-> TRUE, row |-> first[2], col |-> first[1]]
        ELSE [found |-> FALSE,
              row |-> IF \E c \in Rng(NCols(M)) : ~s.col_mask_[c]
                      THEN NRows(M) ELSE row0,
              col |-> NCols(M)]

\* Mutant of AfterSearch: the row of the primed zero is covered and the
\* column of its star stays covered.
AfterSearchNoUncover(s, f) ==
    LET t == [s EXCEPT !.saverow_ = f.row, !.savecol_ = f.col]
        stars == {col \in Rng(NCols(s.matrix_)) : s.mask_[f.row][col] = STAR}
    IN  IF ~f.found THEN [t EXCEPT !.pc = "step5"]
        ELSE IF stars # {}
        THEN [t EXCEPT !.mask_[f.row][f.col] = PRIME,
                       !.row_mask_[f.row] = TRUE,
                       !.pc = "step3"]
        ELSE [t EXCEPT !.mask_[f.row][f.col] = PRIME, !.pc = "step4"]

\* Lines 229-243, f being what find_uncovered answered.
AfterSearch(s, f) ==
    LET t == [s EXCEPT !.saverow_ = f.row, !.savecol_ = f.col]
        stars == {col \in Rng(NCols(s.matrix_)) : s.mask_[f.row][col] = STAR}
    IN  IF ~f.found THEN [t EXCEPT !.pc = "step5"]
        ELSE IF stars # {}
        THEN [t EXCEPT !.mask_[f.row][f.col] = PRIME,
                       !.row_mask_[f.row] = TRUE,
                       !.col_mask_[SetMin(stars)] = FALSE,
                       !.pc = "step3"]
        ELSE [t EXCEPT !.mask_[f.row][f.col] = PRIME, !.pc = "step4"]

step3(s) == Then(find_uncovered(s, Zero, s.saverow_), LAMBDA f : AfterSearch(s, f))

(***************************************************************************)
(* step4                                                                   *)
(***************************************************************************)
\* pair_in_list(needle, haystack)
pair_in_list(needle, haystack) == \E i \in DOMAIN haystack : haystack[i] = needle

RECURSIVE BuildSeqNoPrime(_, _, _)
\* Mutant of BuildSeq: the loop ends once the star of the column has been
\* appended, the prime of the star's row is not looked for.
BuildSeqNoPrime(mask, seq, col) ==
    LET starRows == {row \in DOMAIN mask :
                        mask[row][col] = STAR /\ ~pair_in_list(<<row, col>>, seq)}
    IN  IF starRows = {} THEN seq
        ELSE Append(seq, <<SetMin(starRows), col>>)

RECURSIVE BuildSeq(_, _, _)
\* The do-while loop of lines 276-310: seq so far, col the current column.
BuildSeq(mask, seq, col) ==
    LET starRows == {row \in DOMAIN mask :
                        mask[row][col] = STAR /\ ~pair_in_list(<<row, col>>, seq)}
        row == SetMin(starRows)
        seq1 == Append(seq, <<row, col>>)
        primeCols == {c \in DOMAIN mask[row] :
                        mask[row][c] = PRIME /\ ~pair_in_list(<<row, c>>, seq1)}
    IN  IF starRows = {} THEN seq
        ELSE IF primeCols = {} THEN seq1
        ELSE Then(Append(seq1, <<row, SetMin(primeCols)>>),
                  LAMBDA seq2 : BuildSeq(mask, seq2, seq2[Len(seq2)][2]))

\* The alternating sequence step4 builds from the saved zero.
AlternatingSequence(s) == BuildSeq(s.mask_, <<(<<s.saverow_, s.savecol_>>)>>, s.savecol_)

RECURSIVE FlipSeqNoUnstar(_, _, _)
\* Mutant of FlipSeq: the starred zeros of the sequence are not unstarred.
FlipSeqNoUnstar(mask, seq, i) ==
    LET p == seq[i]
        flipped == IF mask[p[1]][p[2]] = PRIME
                   THEN [mask EXCEPT ![p[1]][p[2]] = STAR] ELSE mask
    IN  IF i > Len(seq) THEN mask
        ELSE Then(flipped, LAMBDA flipped1 : FlipSeqNoUnstar(flipped1, seq, i + 1))

RECURSIVE FlipSeqNoStar(_, _, _)
\* Mutant of FlipSeq: the primed zeros of the sequence are not starred.
FlipSeqNoStar(mask, seq, i) ==
    LET p == seq[i]
        unstarred == IF mask[p[1]][p[2]] = STAR
                     THEN [mask EXCEPT ![p[1]][p[2]] = NORMAL] ELSE mask
    IN  IF i > Len(seq) THEN mask
        ELSE Then(unstarred, LAMBDA flipped1 : FlipSeqNoStar(flipped1, seq, i + 1))

RECURSIVE FlipSeq(_, _, _)
\* The for_each of lines 312-321 from element i of seq on.
FlipSeq(mask, seq, i) ==
    LET p == seq[i]
        unstarred == IF mask[p[1]][p[2]] = STAR
                     THEN [mask EXCEPT ![p[1]][p[2]] = NORMAL] ELSE mask
        flipped == IF mask[p[1]][p[2]] = PRIME
                   THEN [unstarred EXCEPT ![p[1]][p[2]] = STAR] ELSE unstarred
    IN  IF i > Len(seq) THEN mask
        ELSE Then(flipped, LAMBDA flipped1 : FlipSeq(flipped1, seq, i + 1))

\* Mutant of ErasePrimes: the primes that are left stay in the mask.
ErasePrimesNot(mask) == mask

\* Line 324.
ErasePrimes(mask) ==
    [r \in DOMAIN mask |-> [c \in DOMAIN mask[r] |->
        IF mask[r][c] = PRIME THEN NORMAL ELSE mask[r][c]]]

\* Lines 326-327.
Uncovered(cover) == [i \in DOMAIN cover |-> FALSE]

step4(s) ==
    [s EXCEPT !.mask_ = Then(AlternatingSequence(s),
                             LAMBDA seq : ErasePrimes(FlipSeq(s.mask_, seq, 1))),
              !.row_mask_ = Uncovered(s.row_mask_),
              !.col_mask_ = Uncovered(s.col_mask_),
              !.pc = "step2"]

(***************************************************************************)
(* step5                                                                   *)
(***************************************************************************)
RECURSIVE HScanNoSeed(_, _, _)
\* Mutant of HScan: the test lacks "|| h == 0", so h never leaves 0.
HScanNoSeed(s, h, k) ==
    LET n == NCols(s.matrix_)
        row == k \div n
        col == k % n
        x == s.matrix_[row][col]
        take == /\ ~s.row_mask_[row]
                /\ ~s.col_mask_[col]
                /\ FLt(x, h) /\ ~FEq(x, Zero)
    IN  IF k >= NRows(s.matrix_) * n THEN h
        ELSE Then(IF take THEN x ELSE h, LAMBDA h1 : HScanNoSeed(s, h1, k + 1))

RECURSIVE HScanLargest(_, _, _)
\* Mutant of HScan: the comparison is h < matrix_.at(row, col), so the scan
\* keeps the largest uncovered entry.
HScanLargest(s, h, k) ==
    LET n == NCols(s.matrix_)
        row == k \div n
        col == k % n
        x == s.matrix_[row][col]
        take == /\ ~s.row_mask_[row]
                /\ ~s.col_mask_[col]
                /\ \/ FLt(h, x) /\ ~FEq(x, Zero)
                   \/ FEq(h, Zero)
    IN  IF k >= NRows(s.matrix_) * n THEN h
        ELSE Then(IF take THEN x ELSE h, LAMBDA h1 : HScanLargest(s, h1, k + 1))

RECURSIVE HScan(_, _, _)
\* The scan of lines 349-358 from cell k on, in row-major order, h so far.
HScan(s, h, k) ==
    LET n == NCols(s.matrix_)
        row == k \div n
        col == k % n
        x == s.matrix_[row][col]
        take == /\ ~s.row_mask_[row]
                /\ ~s.col_mask_[col]
                /\ \/ FLt(x, h) /\ ~FEq(x, Zero)
                   \/ FEq(h, Zero)
    IN  IF k >= NRows(s.matrix_) * n THEN h
        ELSE Then(IF take THEN x ELSE h, LAMBDA h1 : HScan(s, h1, k + 1))

\* Mutant of Adjusted: h is added to the uncovered rows instead of the
\* covered ones.
AdjustedUncoveredRows(s, h) ==
    LET added == [r \in DOMAIN s.matrix_ |-> [c \in DOMAIN s.matrix_[r] |->
                    IF ~s.row_mask_[r] THEN FAdd(s.matrix_[r][c], h)
                    ELSE s.matrix_[r][c]]]
    IN  [r \in DOMAIN added |-> [c \in DOMAIN added[r] |->
            IF ~s.col_mask_[c] THEN FSub(added[r][c], h) ELSE added[r][c]]]

\* Mutant of Adjusted: h is added to the covered rows and subtracted from no
\* column.
AdjustedAddOnly(s, h) ==
    [r \in DOMAIN s.matrix_ |-> [c \in DOMAIN s.matrix_[r] |->
        IF s.row_mask_[r] THEN FAdd(s.matrix_[r][c], h) ELSE s.matrix_[r][c]]]

\* Mutant of Adjusted: h is subtracted from every column, covered or not.
AdjustedAllColumns(s, h) ==
    [r \in DOMAIN s.matrix_ |-> [c \in DOMAIN s.matrix_[r] |->
        IF s.row_mask_[r] THEN s.matrix_[r][c] ELSE FSub(s.matrix_[r][c], h)]]

\* Lines 360-368.
Adjusted(s, h) ==
    LET added == [r \in DOMAIN s.matrix_ |-> [c \in DOMAIN s.matrix_[r] |->
                    IF s.row_mask_[r] THEN FAdd(s.matrix_[r][c], h)
                    ELSE s.matrix_[r][c]]]
    IN  [r \in DOMAIN added |-> [c \in DOMAIN added[r] |->
            IF ~s.col_mask_[c] THEN FSub(added[r][c], h) ELSE added[r][c]]]

step5(s) ==
    [s EXCEPT !.matrix_ = Then(HScan(s, Zero, 0), LAMBDA h : Adjusted(s, h)),
              !.pc = "step3"]

(***************************************************************************)
(* solve, lines 145-151: the trimming and the sorted list of starred cells *)
(***************************************************************************)
RECURSIVE FindStar(_, _)
\* find(mask_ == STAR) from linear index k on: the linear indices, ascending,
\* of the starred elements of the column-major storage.
FindStar(mask, k) ==
    LET n_rows == NRows(mask)
    IN  IF k >= n_rows * NCols(mask) THEN <<>>
        ELSE IF mask[k % n_rows][k \div n_rows] = STAR
        THEN <<k>> \o FindStar(mask, k + 1)
        ELSE FindStar(mask, k + 1)

\* arma::mod(X, Y) of one element: X - floor(X / (double)Y) * Y.
mod(X, Y) == X - (X \div Y) * Y

\* arma::ind2sub(siz, ndx)
ind2sub(n_rows, ndx) == [i \in DOMAIN ndx |-> <<mod(ndx[i], n_rows), ndx[i] \div n_rows>>]

RECURSIVE StableSortIndex(_, _)
\* arma::stable_sort_index of the values v[i], i in left: the indices by
\* ascending value, equal values in their order of appearance.
StableSortIndex(v, left) ==
    IF left = {} THEN <<>>
    ELSE Then(CHOOSE a \in left : \A b \in left :
                  v[a] < v[b] \/ (v[a] = v[b] /\ a <= b),
              LAMBDA i : <<i>> \o StableSortIndex(v, left \ {i}))

\* Mutant of sortrows: the rows are left in the order they came in.
sortrowsNot(X, col) == X

\* arma::sortrows(X, col)
sortrows(X, col) ==
    Then(StableSortIndex([i \in DOMAIN X |-> X[i][col + 1]], DOMAIN X),
         LAMBDA idx : [i \in DOMAIN X |-> X[idx[i]]])

\* Line 151 on the trimmed mask.
Extracted(mask) ==
    Then(ind2sub(NRows(mask), FindStar(mask, 0)), LAMBDA sub : sortrows(sub, 0))

(***************************************************************************)
(* The cost matrices given to solve                                        *)
(***************************************************************************)
FiniteCosts == {Fin(x) : x \in 0..MaxVal}
AllCosts == FiniteCosts \cup {PosInf, NaN}
Mats(R, C, S) == [Rng(R) -> [Rng(C) -> S]]

\* Costs up to one more than MaxVal, and the 3 x 3 matrix that borders a
\* 2 x 2 matrix with a first row and a first column of zeros: such a matrix
\* is its own reduction, and the zero search of a border leaves the inner
\* cells uncovered with their different values.
WideCosts == {Fin(x) : x \in 0..(MaxVal + 1)}
Bordered(x) ==
    [r \in Rng(3) |-> [c \in Rng(3) |->
        IF r = 0 \/ c = 0 THEN Zero ELSE x[r - 1][c - 1]]]

\* Rows of four costs, and the 4 x 4 matrices made of them: 4 is the least
\* size at which step5 meets a nonzero cell covered by its row only or by
\* its column only.
RowPatterns ==
    {[c \in Rng(4) |-> Fin(p[c + 1])] :
        p \in {<<0, 1, 1, 0>>, <<0, 0, 1, 1>>, <<1, 1, 0, 1>>, <<1, 0, 1, 1>>}}
Patterned == [Rng(4) -> RowPatterns]

\* All matrices of finite costs; on the shapes of at most two rows or at most
\* two columns those with one entry made +infinity; on the small shapes
\* every matrix of finite costs, +infinity and NaN; the bordered matrices;
\* and the 4 x 4 matrices of the row patterns.
Inputs ==
    UNION {Mats(R, C, FiniteCosts) : R \in Dims, C \in Dims}
    \cup UNION {{[x EXCEPT ![r][c] = PosInf] :
                    x \in Mats(R, C, FiniteCosts), r \in Rng(R), c \in Rng(C)} :
                R \in SmallDims, C \in Dims}
    \cup UNION {{[x EXCEPT ![r][c] = PosInf] :
                    x \in Mats(R, C, FiniteCosts), r \in Rng(R), c \in Rng(C)} :
                R \in Dims, C \in SmallDims}
    \cup UNION {Mats(R, C, AllCosts) : R \in SmallDims, C \in SmallDims}
    \cup {Bordered(x) : x \in Mats(2, 2, WideCosts)}
    \cup Patterned

ReuseInputs ==
    UNION {Mats(R, C, {Fin(x) : x \in ReuseCosts}) : R \in ReuseRows, C \in ReuseCols}

(***************************************************************************)
(* Actions                                                                 *)
(***************************************************************************)
\* solve(x) up to the entry of the step loop.
Solve(x) ==
    /\ \E outcome \in EmptyMaxOutcomes :
          /\ outcome = "throw" => MaxOfNothing(x)
          /\ \E t \in {Prepared(Object, x, outcome)} : Becomes(t)
    /\ m' = x
    /\ rows' = NRows(x)
    /\ columns' = NCols(x)
    /\ result' = <<>>
    /\ calls' = calls + 1

Step1 ==
    /\ pc = "step1"
    /\ \E t \in {step1(Object)} : Becomes(t)
    /\ UNCHANGED <<m, rows, columns, result, calls>>

Step2 ==
    /\ pc = "step2"
    /\ \E t \in {step2(Object)} : Becomes(t)
    /\ UNCHANGED <<m, rows, columns, result, calls>>

Step3 ==
    /\ pc = "step3"
    /\ \E t \in {step3(Object)} : Becomes(t)
    /\ UNCHANGED <<m, rows, columns, result, calls>>

Step4 ==
    /\ pc = "step4"
    /\ \E t \in {step4(Object)} : Becomes(t)
    /\ UNCHANGED <<m, rows, columns, result, calls>>

Step5 ==
    /\ pc = "step5"
    /\ \E t \in {step5(Object)} : Becomes(t)
    /\ UNCHANGED <<m, rows, columns, result, calls>>


\* Mutant of Trimmed: the matrix and the mask keep their padding.
TrimmedNot(s, R, C) == [s EXCEPT !.pc = "returned"]

\* The object after lines 147-148.
Trimmed(s, R, C) ==
    [s EXCEPT !.matrix_ = Shrink(s.matrix_, R, C),
              !.mask_ = Shrink(s.mask_, R, C),
              !.pc = "returned"]

\* solve from the exit of the step loop to its return.
Return ==
    /\ pc = "done"
    /\ \E t \in {Trimmed(Object, rows, columns)} :
          /\ Becomes(t)
          /\ result' = Extracted(t.mask_)
    /\ UNCHANGED <<m, rows, columns, calls>>

\* The step loop and the return: what a call does once it has started.
Engine == Step1 \/ Step2 \/ Step3 \/ Step4 \/ Step5 \/ Return

\* A fresh object: no matrix, no mask, no covers, saverow_ and savecol_
\* uninitialized.
Fresh(r, c) ==
    [pc |-> "idle", matrix_ |-> <<>>, mask_ |-> <<>>, row_mask_ |-> <<>>,
     col_mask_ |-> <<>>, saverow_ |-> r, savecol_ |-> c]

Init ==
    /\ \E r \in Indeterminate, c \in Indeterminate :
          /\ pc = Fresh(r, c).pc
          /\ matrix_ = Fresh(r, c).matrix_
          /\ mask_ = Fresh(r, c).mask_
          /\ row_mask_ = Fresh(r, c).row_mask_
          /\ col_mask_ = Fresh(r, c).col_mask_
          /\ saverow_ = r
          /\ savecol_ = c
    /\ m = <<>>
    /\ rows = 0
    /\ columns = 0
    /\ result = <<>>
    /\ calls = 0

\* One call of solve on a fresh object.
Call == pc = "idle" /\ \E x \in Inputs : Solve(x)

Next == Call \/ Step1 \/ Step2 \/ Step3 \/ Step4 \/ Step5 \/ Return

Spec == Init /\ [][Next]_vars

\* solve is a sequential loop: a call that has started keeps running.
FairSpec == Spec /\ WF_vars(Engine)

\* Calls of solve, one after the other, on the same object.
CallAgain ==
    /\ pc \in {"idle", "returned"}
    /\ calls < MaxCalls
    /\ \E x \in ReuseInputs : Solve(x)

NextReuse == CallAgain \/ Step1 \/ Step2 \/ Step3 \/ Step4 \/ Step5 \/ Return

SpecReuse == Init /\ [][NextReuse]_vars

(***************************************************************************)
(* solve as a whole, on a fresh object                                     *)
(***************************************************************************)
RECURSIVE Run(_)
\* The step loop of lines 119-143 run to its exit.
Run(s) ==
    IF s.pc = "step1" THEN Run(step1(s))
    ELSE IF s.pc = "step2" THEN Run(step2(s))
    ELSE IF s.pc = "step3" THEN Run(step3(s))
    ELSE IF s.pc = "step4" THEN Run(step4(s))
    ELSE IF s.pc = "step5" THEN Run(step5(s))
    ELSE s

RECURSIVE Augments(_)
\* The number of times the step loop, run from s to its exit, executes step4.
Augments(s) ==
    IF s.pc = "step1" THEN Augments(step1(s))
    ELSE IF s.pc = "step2" THEN Augments(step2(s))
    ELSE IF s.pc = "step3" THEN Augments(step3(s))
    ELSE IF s.pc = "step4" THEN 1 + Augments(step4(s))
    ELSE IF s.pc = "step5" THEN Augments(step5(s))
    ELSE 0

\* What solve(x) returns on a fresh object whose saverow_ and savecol_ hold
\* r and c.
FreshResult(x, r, c) ==
    Extracted(Trimmed(Run(Prepared(Fresh(r, c), x, "nan")), NRows(x), NCols(x)).mask_)

(***************************************************************************)
(* Vocabulary of the properties                                            *)
(***************************************************************************)
AllFinite(x) == \A e \in Elems(x) : IsFinite(e)
HasNaN(x) == \E e \in Elems(x) : IsNaN(e)

\* The precondition of solve: no NaN and at least one finite entry (every
\* enumerated matrix has at least one row and one column).
ValidInput(x) == ~HasNaN(x) /\ FiniteElems(x) # {}

\* The complete assignments of an R x C matrix: min(R, C) cells, no two in
\* the same row or column.
Assignments(R, C) ==
    IF R <= C
    THEN {{<<r, f[r]>> : r \in Rng(R)} :
            f \in {g \in [Rng(R) -> Rng(C)] :
                      \A a \in Rng(R), b \in Rng(R) : a # b => g[a] # g[b]}}
    ELSE {{<<f[c], c>> : c \in Rng(C)} :
            f \in {g \in [Rng(C) -> Rng(R)] :
                      \A a \in Rng(C), b \in Rng(C) : a # b => g[a] # g[b]}}

RECURSIVE SumOver(_, _)
\* The sum of the finite costs x[row][col] over the cells of a set.
SumOver(x, A) ==
    IF A = {} THEN 0
    ELSE LET p == CHOOSE q \in A : TRUE
         IN  x[p[1]][p[2]].v + SumOver(x, A \ {p})

\* The brute-force optimum of a matrix of finite costs.
BruteOptimum(x) ==
    LET sums == {SumOver(x, A) : A \in Assignments(NRows(x), NCols(x))}
    IN  SetMin(sums)

Pairs(seq) == {seq[i] : i \in DOMAIN seq}

\* A mask has at most one STAR in every row and in every column.
StarsIndependent(mask) ==
    \A p \in StarCells(mask), q \in StarCells(mask) :
        p # q => p[1] # q[1] /\ p[2] # q[2]

\* The working matrix the step loop of the current call started from.
StartMatrix == Prepared(Object, m, "nan").matrix_

\* The same matrix before the column minima were subtracted (line 115).
StartRowReduced ==
    LET M == InfReplaced(Squared(m), MaxOf(FiniteElems(Squared(m))))
    IN  EachColSub(M, RowMin(M))

(***************************************************************************)
(* C1                                                                      *)
(***************************************************************************)
\* C1: for a matrix of finite non-negative costs, the costs of the returned
\* pairs add up to the brute-force optimum over all complete assignments.
C1_Optimal ==
    (pc = "returned" /\ AllFinite(m)) =>
        /\ \A i \in DOMAIN result : result[i] \in Rng(rows) \X Rng(columns)
        /\ Cardinality(Pairs(result)) = Len(result)
        /\ SumOver(m, Pairs(result)) = BruteOptimum(m)

\* A rectangular matrix whose optimum is neither 0 nor the sum of the row
\* minima was solved after the working matrix had been adjusted.
C1_Witness ==
    /\ pc = "returned"
    /\ AllFinite(m)
    /\ rows # columns
    /\ BruteOptimum(m) > 0
    /\ matrix_ # Shrink(StartMatrix, rows, columns)

(***************************************************************************)
(* C2                                                                      *)
(***************************************************************************)
\* C2: solve returns exactly min(R, C) pairs, each inside the R x C matrix,
\* no row twice and no column twice.
C2_Cardinality ==
    pc = "returned" =>
        /\ Len(result) = Min2(rows, columns)
        /\ \A i \in DOMAIN result : result[i] \in Rng(rows) \X Rng(columns)
        /\ \A i \in DOMAIN result, j \in DOMAIN result :
              i # j => result[i][1] # result[j][1] /\ result[i][2] # result[j][2]

\* More rows than columns: every column is assigned, a row is left out.
C2_Witness ==
    /\ pc = "returned"
    /\ rows = 3 /\ columns = 2
    /\ {result[i][2] : i \in DOMAIN result} = Rng(columns)
    /\ \E r \in Rng(rows) : \A i \in DOMAIN result : result[i][1] # r

(***************************************************************************)
(* C3                                                                      *)
(***************************************************************************)
\* Some complete assignment of x uses finite cells only.
FiniteAssignmentExists(x) ==
    \E A \in Assignments(NRows(x), NCols(x)) : \A p \in A : IsFinite(x[p[1]][p[2]])

\* C3: when the matrix holds +infinity entries and some complete assignment
\* is finite, no returned pair lies on a cell whose cost was +infinity.
C3_NoInfinitePair ==
    (pc = "returned" /\ HasInf(m) /\ FiniteAssignmentExists(m)) =>
        \A i \in DOMAIN result : m[result[i][1]][result[i][2]] # PosInf

(***************************************************************************)
(* C4                                                                      *)
(***************************************************************************)
\* The matrix violates the precondition: a NaN entry, or no finite entry.
InvalidInput(x) == HasNaN(x) \/ FiniteElems(x) = {}

\* C4: a call on a matrix that violates the precondition fails during the
\* preprocessing: it never enters the step loop and never returns a result.
C4_InvalidInputFails ==
    (calls > 0 /\ InvalidInput(m)) => pc = "failed"

(***************************************************************************)
(* C5                                                                      *)
(***************************************************************************)
\* C5: for every valid input the step loop reaches step 0.
C5_Terminates ==
    [](((pc = "step1") /\ ValidInput(m)) => <>(pc = "done"))

\* The loop of a valid input with an infinite entry ended after step5 had
\* adjusted the working matrix.
C5_Witness ==
    /\ pc = "done"
    /\ ValidInput(m)
    /\ HasInf(m)
    /\ matrix_ # StartMatrix

(***************************************************************************)
(* C6                                                                      *)
(***************************************************************************)
\* C6: the returned pairs are in strictly increasing order of row index.
C6_SortedByRow ==
    pc = "returned" =>
        \A i \in DOMAIN result, j \in DOMAIN result :
            i < j => result[i][1] < result[j][1]

\* The starred cells were found in an order that is not the order of rows.
C6_Witness ==
    /\ pc = "returned"
    /\ Len(result) = 3
    /\ ind2sub(NRows(mask_), FindStar(mask_, 0)) # result

(***************************************************************************)
(* C7                                                                      *)
(***************************************************************************)
\* C7: for a valid input the working matrix, when step1 is entered, is
\* N x N with N = max(R, C), its entries are finite and >= 0, and every row
\* and every column holds a zero.
C7_Preprocessed ==
    (pc = "step1" /\ ValidInput(m)) =>
        LET N == Max2(rows, columns)
        IN  /\ DOMAIN matrix_ = Rng(N)
            /\ \A r \in Rng(N) : DOMAIN matrix_[r] = Rng(N)
            /\ \A r \in Rng(N), c \in Rng(N) :
                  IsFinite(matrix_[r][c]) /\ matrix_[r][c].v >= 0
            /\ \A r \in Rng(N) : \E c \in Rng(N) : matrix_[r][c] = Zero
            /\ \A c \in Rng(N) : \E r \in Rng(N) : matrix_[r][c] = Zero

\* A rectangular input with an infinite entry, one column of which held no
\* zero after the rows had been reduced.
C7_Witness ==
    /\ pc = "step1"
    /\ ValidInput(m)
    /\ HasInf(m)
    /\ rows # columns
    /\ \E c \in DOMAIN matrix_ : \A r \in DOMAIN matrix_ : ~FEq(StartRowReduced[r][c], Zero)

(***************************************************************************)
(* C8                                                                      *)
(***************************************************************************)
\* C8: between the engine's steps the mask has at most one STAR in every
\* row and at most one STAR in every column.
C8_StarsIndependent == StarsIndependent(mask_)

\* An augmentation has moved a star: the mask before step2 is not the one
\* step1 makes.
C8_Witness ==
    /\ pc = "step2"
    /\ ValidInput(m)
    /\ Cardinality(StarCells(mask_)) >= 2
    /\ \E p \in StarCells(step1(Prepared(Object, m, "nan")).mask_) :
          mask_[p[1]][p[2]] # STAR

(***************************************************************************)
(* C9                                                                      *)
(***************************************************************************)
\* C9: every call on an object, whatever it was used for before, returns
\* what a fresh object returns for the same matrix.
C9_SelfContained ==
    pc = "returned" =>
        \A r \in Indeterminate, c \in Indeterminate : result = FreshResult(m, r, c)

\* The second call on an object returned, and went through the zero search
\* with a saved zero that the first call had left.
C9_Witness ==
    /\ pc = "returned"
    /\ calls = 2
    /\ matrix_ # Shrink(StartMatrix, rows, columns)

(***************************************************************************)
(* C10                                                                     *)
(***************************************************************************)
AllColumnsCovered(cover) == \A c \in DOMAIN cover : cover[c]

\* N stars, exactly one in every row and exactly one in every column.
PerfectStars(mask) ==
    /\ Cardinality(StarCells(mask)) = NRows(mask)
    /\ \A r \in DOMAIN mask : Cardinality({p \in StarCells(mask) : p[1] = r}) = 1
    /\ \A c \in Rng(NCols(mask)) : Cardinality({p \in StarCells(mask) : p[2] = c}) = 1

\* C10: step2 returns 0 exactly when all columns are covered, and then the
\* mask holds exactly one STAR in every row and in every column.
C10_DoneIffCovered ==
    [][pc = "step2" =>
          /\ (pc' = "done") <=> AllColumnsCovered(col_mask_')
          /\ pc' = "done" => PerfectStars(mask_')]_vars

\* step2 found all columns covered after at least one augmentation.
C10_Witness ==
    /\ pc = "done"
    /\ ValidInput(m)
    /\ AllColumnsCovered(col_mask_)
    /\ NRows(mask_) = 3
    /\ step1(Prepared(Object, m, "nan")).mask_ # mask_

(***************************************************************************)
(* C11                                                                     *)
(***************************************************************************)
\* The cells of s whose row and column are both uncovered.
UncoveredCells(s) ==
    {rc \in (DOMAIN s.matrix_) \X Rng(NCols(s.matrix_)) :
        ~s.row_mask_[rc[1]] /\ ~s.col_mask_[rc[2]]}

UncoveredZero(s) ==
    \E rc \in UncoveredCells(s) : FEq(s.matrix_[rc[1]][rc[2]], Zero)

\* step3 on s finds a zero and primes a cell that was not primed.
PrimesNewZero(s) ==
    LET t == step3(s)
    IN  /\ t.pc \in {"step3", "step4"}
        /\ s.mask_[t.saverow_][t.savecol_] # PRIME
        /\ t.mask_[t.saverow_][t.savecol_] = PRIME

\* C11: for a valid input, the matrix step5 leaves holds a zero in a cell
\* whose row and column are uncovered, and the step3 that follows primes a
\* zero that was not primed and does not return 5.
C11_AdjustMakesZero ==
    [][(pc = "step5" /\ ValidInput(m)) =>
          (pc' = "step3" /\ UncoveredZero(Object)' /\ PrimesNewZero(Object)')]_vars

\* step5 has adjusted a 3 x 3 working matrix more than once: an entry that
\* was 0 at the start is now above 1, and step3 is about to search.
C11_Witness ==
    /\ pc = "step3"
    /\ ValidInput(m)
    /\ rows = 3 /\ columns = 3
    /\ UncoveredZero(Object)
    /\ \E r \in DOMAIN matrix_, c \in DOMAIN matrix_ :
          matrix_[r][c] # StartMatrix[r][c]

(***************************************************************************)
(* C12                                                                     *)
(***************************************************************************)
InEngine == pc \in {"step1", "step2", "step3", "step4", "step5", "done"}

\* C12: for a valid input, from the entry of step1 to the exit of the loop
\* every entry of the working matrix is finite and >= 0.
C12_NonNegative ==
    (InEngine /\ ValidInput(m)) =>
        \A e \in Elems(matrix_) : IsFinite(e) /\ e.v >= 0

\* step5 has added h to a cell covered by its row and by its column and
\* subtracted it from the uncovered cells.
C12_Witness ==
    /\ pc = "step3"
    /\ ValidInput(m)
    /\ \E r \in DOMAIN matrix_, c \in DOMAIN matrix_ :
          /\ row_mask_[r] /\ col_mask_[c]
          /\ FLt(StartMatrix[r][c], matrix_[r][c])
    /\ \E r \in DOMAIN matrix_, c \in DOMAIN matrix_ :
          FLt(matrix_[r][c], StartMatrix[r][c])

(***************************************************************************)
(* C13                                                                     *)
(***************************************************************************)
UncoveredValues(s) == {s.matrix_[rc[1]][rc[2]] : rc \in UncoveredCells(s)}

\* C13: for a valid input, when step5 is entered no uncovered cell holds a
\* zero, some cell is uncovered, and the h of lines 347-358 is the minimum
\* of the uncovered cells and is > 0.
C13_HIsMinimum ==
    (pc = "step5" /\ ValidInput(m)) =>
        /\ ~UncoveredZero(Object)
        /\ UncoveredCells(Object) # {}
        /\ HScan(Object, Zero, 0) = MinOf(UncoveredValues(Object))
        /\ FLt(Zero, HScan(Object, Zero, 0))

\* step5 is entered with uncovered cells of different values, the first of
\* them in scan order not the smallest.
C13_Witness ==
    /\ pc = "step5"
    /\ ValidInput(m)
    /\ Cardinality(UncoveredValues(Object)) >= 2
    /\ \E rc \in UncoveredCells(Object) :
          /\ \A o \in UncoveredCells(Object) :
                rc[1] < o[1] \/ (rc[1] = o[1] /\ rc[2] <= o[2])
          /\ FLt(HScan(Object, Zero, 0), matrix_[rc[1]][rc[2]])

(***************************************************************************)
(* C14                                                                     *)
(***************************************************************************)
\* C14: step4 makes the number of STAR cells one more than it was, and the
\* mask it leaves has at most one STAR in every row and in every column.
C14_AugmentAddsOne ==
    [][pc = "step4" =>
          /\ Cardinality(StarCells(mask_')) = Cardinality(StarCells(mask_)) + 1
          /\ StarsIndependent(mask_')]_vars

\* step4 has run on a sequence that held a star: the mask before step2
\* holds a star that step1 did not make, and one of step1's is gone.
C14_Witness ==
    /\ pc = "step2"
    /\ ValidInput(m)
    /\ \E p \in StarCells(mask_) :
          step1(Prepared(Object, m, "nan")).mask_[p[1]][p[2]] # STAR
    /\ \E p \in StarCells(step1(Prepared(Object, m, "nan")).mask_) :
          mask_[p[1]][p[2]] # STAR

(***************************************************************************)
(* C15                                                                     *)
(***************************************************************************)
\* The shape of an alternating sequence over a mask, from the saved zero.
Alternates(mask, seq, row, col) ==
    /\ Len(seq) >= 1
    /\ seq[1] = <<row, col>>
    /\ mask[row][col] = PRIME
    /\ \A c \in DOMAIN mask[row] : mask[row][c] # STAR
    /\ \A i \in DOMAIN seq, j \in DOMAIN seq : i # j => seq[i] # seq[j]
    /\ \A i \in DOMAIN seq :
          mask[seq[i][1]][seq[i][2]] = IF i % 2 = 1 THEN PRIME ELSE STAR
    /\ \A i \in DOMAIN seq :
          i > 1 => IF i % 2 = 0 THEN seq[i][2] = seq[i - 1][2]
                                ELSE seq[i][1] = seq[i - 1][1]
    /\ Len(seq) % 2 = 1
    /\ \A r \in DOMAIN mask : mask[r][seq[Len(seq)][2]] # STAR

\* C15: the sequence step4 builds starts at the saved zero, a PRIME in a row
\* without STAR, holds no pair twice, alternates PRIME and STAR, each STAR in
\* the column of the PRIME before it and each PRIME in the row of the STAR
\* before it, and ends on a PRIME whose column holds no STAR.
C15_AlternatingSequence ==
    pc = "step4" => Alternates(mask_, AlternatingSequence(Object), saverow_, savecol_)

\* step4 is entered with a sequence of five cells: two stars to move.
C15_Witness ==
    /\ pc = "step4"
    /\ ValidInput(m)
    /\ Len(AlternatingSequence(Object)) = 5

(***************************************************************************)
(* C16                                                                     *)
(***************************************************************************)
PrimeCells(mask) ==
    {rc \in (DOMAIN mask) \X Rng(NCols(mask)) : mask[rc[1]][rc[2]] = PRIME}

\* C16: whenever step2 is entered the mask holds no PRIME and no row and no
\* column is covered.
C16_CleanAtCheckCover ==
    pc = "step2" =>
        /\ PrimeCells(mask_) = {}
        /\ \A r \in DOMAIN row_mask_ : ~row_mask_[r]
        /\ \A c \in DOMAIN col_mask_ : ~col_mask_[c]

\* step2 is entered from step4 after an adjustment: the zero search had
\* covered a row, and the mask is not the one step1 makes.
C16_Witness ==
    /\ pc = "step2"
    /\ ValidInput(m)
    /\ matrix_ # StartMatrix
    /\ mask_ # step1(Prepared(Object, m, "nan")).mask_

(***************************************************************************)
(* C17                                                                     *)
(***************************************************************************)
\* C17: step5 leaves the mask, the covers and the saved zero as they were;
\* a cell with exactly one of its row and column covered keeps its value, an
\* uncovered cell loses h and a cell covered twice gains h.
C17_AdjustFrame ==
    [][(pc = "step5" /\ ValidInput(m)) =>
          LET h == HScan(Object, Zero, 0)
          IN  /\ mask_' = mask_
              /\ row_mask_' = row_mask_
              /\ col_mask_' = col_mask_
              /\ saverow_' = saverow_
              /\ savecol_' = savecol_
              /\ DOMAIN matrix_' = DOMAIN matrix_
              /\ \A r \in DOMAIN matrix_, c \in Rng(NCols(matrix_)) :
                    matrix_'[r][c] =
                        IF row_mask_[r] /\ col_mask_[c] THEN FAdd(matrix_[r][c], h)
                        ELSE IF ~row_mask_[r] /\ ~col_mask_[c] THEN FSub(matrix_[r][c], h)
                        ELSE matrix_[r][c]]_vars

\* After an adjustment the covers show the three kinds of cells: a cell
\* covered twice that is above its starting value, a nonzero cell covered
\* once that has its starting value, and an uncovered cell below its
\* starting value.
C17_Witness ==
    /\ pc = "step3"
    /\ ValidInput(m)
    /\ matrix_ # StartMatrix
    /\ \E r \in DOMAIN matrix_, c \in DOMAIN matrix_ :
          row_mask_[r] /\ col_mask_[c] /\ FLt(StartMatrix[r][c], matrix_[r][c])
    /\ \E r \in DOMAIN matrix_, c \in DOMAIN matrix_ :
          /\ row_mask_[r] # col_mask_[c]
          /\ FLt(Zero, matrix_[r][c])
          /\ matrix_[r][c] = StartMatrix[r][c]
    /\ \E r \in DOMAIN matrix_, c \in DOMAIN matrix_ :
          ~row_mask_[r] /\ ~col_mask_[c] /\ FLt(matrix_[r][c], StartMatrix[r][c])

(***************************************************************************)
(* C18                                                                     *)
(***************************************************************************)
\* The reductions in the other order: the column minima are subtracted
\* first, then the row minima of the result.
ReducedColumnsFirst(M) ==
    LET byCol == EachRowSub(M, ColMin(M))
    IN  EachColSub(byCol, RowMin(byCol))

\* Every entry of M is finite and >= 0 and every row and every column of M
\* holds a zero.
IsReduced(M) ==
    /\ \A e \in Elems(M) : IsFinite(e) /\ e.v >= 0
    /\ \A r \in DOMAIN M : \E c \in Rng(NCols(M)) : M[r][c] = Zero
    /\ \A c \in Rng(NCols(M)) : \E r \in DOMAIN M : M[r][c] = Zero

\* The complete assignments of least total cost of a matrix of finite costs.
OptimalAssignments(M) ==
    Then(BruteOptimum(M),
         LAMBDA least : {A \in Assignments(NRows(M), NCols(M)) : SumOver(M, A) = least})

\* C18 as stated: for a square matrix of finite non-negative costs the
\* working matrix solve makes (rows reduced, then columns) is the matrix
\* that reducing the columns first and then the rows makes.
C18_ReductionsCommute ==
    (pc = "step1" /\ IsSquare(m) /\ AllFinite(m)) =>
        matrix_ = ReducedColumnsFirst(m)

\* C18 amended: for a square matrix of finite non-negative costs both orders
\* make a matrix of entries >= 0 with a zero in every row and every column,
\* and both matrices have the optimal assignments of the cost matrix.
C18_BothOrdersReduce ==
    (pc = "step1" /\ IsSquare(m) /\ AllFinite(m)) =>
        /\ IsReduced(matrix_)
        /\ IsReduced(ReducedColumnsFirst(m))
        /\ OptimalAssignments(matrix_) = OptimalAssignments(m)
        /\ OptimalAssignments(ReducedColumnsFirst(m)) = OptimalAssignments(m)

\* A square matrix on which the two orders make different working matrices.
C18_Witness ==
    /\ pc = "step1"
    /\ IsSquare(m) /\ AllFinite(m)
    /\ matrix_ # ReducedColumnsFirst(m)
    /\ IsReduced(matrix_)
    /\ IsReduced(ReducedColumnsFirst(m))

(***************************************************************************)
(* C19                                                                     *)
(***************************************************************************)
MarkedCells(mask) == StarCells(mask) \cup PrimeCells(mask)

\* C19: for a valid input every cell marked STAR or PRIME holds 0 in the
\* working matrix, and when step5 is entered every marked cell has exactly
\* one of its row and its column covered.
C19_MarkedAreZero ==
    (calls > 0 /\ pc # "failed" /\ ValidInput(m)) =>
        /\ \A rc \in MarkedCells(mask_) : matrix_[rc[1]][rc[2]] = Zero
        /\ pc = "step5" =>
              \A rc \in MarkedCells(mask_) : row_mask_[rc[1]] # col_mask_[rc[2]]

\* After an adjustment the mask holds a star whose row is covered, a star
\* whose column is covered, and a prime.
C19_Witness ==
    /\ pc = "step3"
    /\ ValidInput(m)
    /\ matrix_ # StartMatrix
    /\ PrimeCells(mask_) # {}
    /\ \E rc \in StarCells(mask_) : row_mask_[rc[1]] /\ ~col_mask_[rc[2]]
    /\ \E rc \in StarCells(mask_) : ~row_mask_[rc[1]] /\ col_mask_[rc[2]]

(***************************************************************************)
(* C20                                                                     *)
(***************************************************************************)
\* A step of the loop leaves at least as many STAR cells as it found.
StarsNotFewer ==
    pc \in {"step1", "step2", "step3", "step4", "step5"} =>
        Cardinality(StarCells(mask_')) >= Cardinality(StarCells(mask_))

\* C20: within a call the number of STAR cells never goes down from one
\* step to the next; for a valid input step1 stars at least one zero, and
\* the loop executes step4 at most N - 1 times, N = max(R, C).
C20_AtMostNMinus1Augments ==
    /\ [][StarsNotFewer]_vars
    /\ []((pc = "step2" /\ ValidInput(m)) => Cardinality(StarCells(mask_)) >= 1)
    /\ []((pc = "step1" /\ ValidInput(m)) =>
             Augments(Object) <= Max2(rows, columns) - 1)

\* A 3 x 3 matrix for which step1 stars one zero and step4 runs twice.
C20_Witness ==
    /\ pc = "step1"
    /\ ValidInput(m)
    /\ Max2(rows, columns) = 3
    /\ Cardinality(StarCells(step1(Object).mask_)) = 1
    /\ Augments(Object) = 2

====
